---- MODULE Spec2Model ----
(***************************************************************************)
(* Model of ResponseParser.parse_response (src/commander.py, 275-411).     *)
(*                                                                         *)
(* A text is a sequence of characters, each written as a string; a line is *)
(* a text without "\n".  Indices i are 0-based as in the source: lines[i]  *)
(* of the source is At(lines, i) here.  The Python dict modified_files is  *)
(* a sequence of records [k, v] in insertion order with unique keys.       *)
(***************************************************************************)
EXTENDS Integers, Sequences, FiniteSets, TLC

VARIABLES
  response,        \* parse_response argument: the raw text
  lines,           \* response.split('\n')                       (line 287)
  i,               \* loop index                                 (line 294)
  current_file,    \* None or the path of the open block         (line 300)
  file_content,    \* accumulator of the open block              (line 301)
  modified_files,  \* the result dict                            (line 277)
  pc,              \* "start" | "loop" | "done"
  input,           \* history: how the response was put together
  openAt,          \* history: index of the first content line of the
                   \*          block opened last (-1: none yet)
  finalized,       \* history: <<[path, content]>> in finalization order
  iters,           \* history: number of loop iterations executed
  use_debugging,   \* self.use_debugging                         (line 273)
  opened,          \* history: <<[at, path]>>, the markers that opened a
                   \*          block, in order
  calls,           \* history: [n, prev], the number of the running call on
                   \*          this text and the result of the call before
  frames,          \* the frames of the parse_response calls that run at the
                   \* same time: <<[response, lines, i, current_file,
                   \* file_content, modified_files, pc]>>
  fs,              \* the files on disk: path -> content, None when absent
  dirs,            \* the directories on disk
  appliers,        \* the frames of the write_modified_files calls:
                   \* <<[mf, k, pc, filename, existed, prev]>>, k the number
                   \* of the entry of mf.items() being applied
  log,             \* history: the filesystem operations done, in order:
                   \* <<[w, k, op, files]>>
  fs0,             \* history: fs when the write_modified_files calls began
  args,            \* main: the command line, [yes]
  tree,            \* find_files: the directory tree searched, [skip, files]:
                   \* the directories with a .skip-commander file and the
                   \* directories with a file of a wanted extension
  finder           \* find_files: the FileProcessor and the calls in progress,
                   \* [recursive, stack, found_files, skipped_directories,
                   \* files_found, pc]

vars == <<response, lines, i, current_file, file_content, modified_files,
          pc, input, openAt, finalized, iters, use_debugging, opened, calls,
          frames, fs, dirs, appliers, log, fs0, args,
          tree, finder>>

\* what a single parse_response call leaves alone
env == <<frames, fs, dirs, appliers, log, fs0, args,
          tree, finder>>

----------------------------------------------------------------------------
(* Bounds *)

MaxLines == 5      \* raw responses have at most MaxLines lines
MaxContent == 3    \* synthesized responses carry at most MaxContent content lines in all
MaxSep == 2        \* at most MaxSep free-text lines between two blocks
MaxCalls == 2      \* at most MaxCalls calls of parse_response on one text
MaxThreadLines == 3 \* a response parsed at the same time as another has at most MaxThreadLines lines
MaxEntries == 2    \* a mapping given to write_modified_files has at most MaxEntries entries

----------------------------------------------------------------------------
(* Texts used to build inputs *)

BT == "BT"   \* the backtick character U+0060
FENCE == <<BT, BT, BT>>
DASHES == <<"-", "-", "-">>
EMPTY == <<>>
TOOL_CODE == <<BT, BT, BT, "t", "o", "o", "l", "_", "c", "o", "d", "e">>
TAG_TEXT == <<"t", "e", "x", "t">>
PATH_A == <<"a", ".", "t", "x", "t">>
PATH_B == <<"b", ".", "t", "x", "t">>
HELLO == <<"h", "e", "l", "l", "o">>
WORLD == <<"w", "o", "r", "l", "d">>
NOTE == <<"n", "o", "t", "e">>
DASH3 == DASHES
DASH5 == <<"-", "-", "-", "-", "-">>
PADDED_FENCE == <<" ">> \o FENCE \o <<"\r">>
BLANK == <<" ">>

MarkerFor(path) == DASHES \o path \o DASHES

----------------------------------------------------------------------------
(* Python string primitives *)

None == <<"None">>

Whitespace == {" ", "\t", "\r", "\n"}

RECURSIVE lstrip(_)
lstrip(s) ==
  IF s = <<>> THEN s
  ELSE IF Head(s) \in Whitespace THEN lstrip(Tail(s)) ELSE s

RECURSIVE rstrip(_)
rstrip(s) ==
  IF s = <<>> THEN s
  ELSE IF s[Len(s)] \in Whitespace THEN rstrip(SubSeq(s, 1, Len(s) - 1)) ELSE s

strip(s) == rstrip(lstrip(s))

startswith(s, p) == Len(s) >= Len(p) /\ SubSeq(s, 1, Len(p)) = p

endswith(s, p) == Len(s) >= Len(p) /\ SubSeq(s, Len(s) - Len(p) + 1, Len(s)) = p

\* the payload is trimmed
Chop3Stripped(s) == strip(IF Len(s) - 3 >= 4 THEN SubSeq(s, 4, Len(s) - 3) ELSE <<>>)

\* s[3:-3]
Chop3(s) == IF Len(s) - 3 >= 4 THEN SubSeq(s, 4, Len(s) - 3) ELSE <<>>

\* text.split(): empty pieces are dropped
RECURSIVE splitSkipEmpty(_)
splitSkipEmpty(t) ==
  IF \A k \in 1..Len(t) : t[k] # "\n" THEN (IF t = <<>> THEN <<>> ELSE <<t>>)
  ELSE LET k == CHOOSE k \in 1..Len(t) :
                  t[k] = "\n" /\ \A j \in 1..(k - 1) : t[j] # "\n"
       IN (IF k = 1 THEN <<>> ELSE <<SubSeq(t, 1, k - 1)>>)
            \o splitSkipEmpty(SubSeq(t, k + 1, Len(t)))

\* text.split('\n')
RECURSIVE split(_)
split(t) ==
  IF \A k \in 1..Len(t) : t[k] # "\n" THEN <<t>>
  ELSE LET k == CHOOSE k \in 1..Len(t) :
                  t[k] = "\n" /\ \A j \in 1..(k - 1) : t[j] # "\n"
       IN <<SubSeq(t, 1, k - 1)>> \o split(SubSeq(t, k + 1, Len(t)))

\* every line is followed by a line break
RECURSIVE joinTrailing(_)
joinTrailing(seq) ==
  IF seq = <<>> THEN <<>> ELSE seq[1] \o <<"\n">> \o joinTrailing(Tail(seq))

\* '\n'.join(seq)
RECURSIVE join(_)
join(seq) ==
  IF seq = <<>> THEN <<>>
  ELSE IF Len(seq) = 1 THEN seq[1]
  ELSE seq[1] \o <<"\n">> \o join(Tail(seq))

\* lines[k], k 0-based
At(ls, k) == ls[k + 1]

\* dict.setdefault(k, v) in place of d[k] = v
DictSetKeepFirst(d, k, v) ==
  IF \E n \in 1..Len(d) : d[n].k = k THEN d ELSE Append(d, [k |-> k, v |-> v])

\* an overwritten key moves to the end
DictSetMoveToEnd(d, k, v) ==
  Append(SelectSeq(d, LAMBDA e : e.k # k), [k |-> k, v |-> v])

\* d[k] = v on an insertion-ordered dict
DictSet(d, k, v) ==
  IF \E n \in 1..Len(d) : d[n].k = k
  THEN [n \in 1..Len(d) |-> IF d[n].k = k THEN [k |-> k, v |-> v] ELSE d[n]]
  ELSE Append(d, [k |-> k, v |-> v])

Keys(d) == {d[n].k : n \in 1..Len(d)}

Get(d, k) == d[CHOOSE n \in 1..Len(d) : d[n].k = k].v

Items(d) == {<<d[n].k, d[n].v>> : n \in 1..Len(d)}

----------------------------------------------------------------------------
(* The tests of the loop body *)

\* line_stripped.startswith('---') and line_stripped.endswith('---')
StartsAndEndsWithDashes(s) == startswith(s, DASHES) /\ endswith(s, DASHES)

\* every fence closes the open block
CloseOnAnyFence(ls, k) == TRUE

\* lines 335-364: next_line_is_new_file_or_eof
NextLineIsNewFileOrEof(ls, k) ==
  IF k + 1 < Len(ls)
  THEN LET next_line == strip(At(ls, k + 1)) IN
       IF StartsAndEndsWithDashes(next_line) THEN TRUE
       ELSE IF next_line = <<>>
            THEN IF k + 2 >= Len(ls) THEN TRUE
                 ELSE StartsAndEndsWithDashes(strip(At(ls, k + 2)))
            ELSE FALSE
  ELSE TRUE

\* the two lines after line k are read whether they exist or not
ReadsAtUnguarded(ls, k, cur) == {k, k + 1, k + 2}

\* lines 304-364: the indices of the lines the loop body reads at index k
\* with current_file cur: lines[i]; in the marker branch lines[i] after
\* i += 1 (line 319); in the fence branch lines[i + 1] (line 337) and
\* lines[i + 2] (line 350)
ReadsAt(ls, k, cur) ==
  LET line_stripped == strip(At(ls, k)) IN
  {k} \cup
  (IF StartsAndEndsWithDashes(line_stripped) /\ cur = None
   THEN (IF k + 1 < Len(ls) THEN {k + 1} ELSE {})
   ELSE IF line_stripped = FENCE /\ cur # None
   THEN (IF k + 1 < Len(ls)
         THEN {k + 1} \cup
              (IF ~StartsAndEndsWithDashes(strip(At(ls, k + 1)))
                  /\ strip(At(ls, k + 1)) = <<>>
                  /\ ~(k + 2 >= Len(ls))
               THEN {k + 2} ELSE {})
         ELSE {})
   ELSE {})

\* the line after the sentinel is skipped too
FirstIndexSkipsTwo(ls) ==
  IF 0 < Len(ls) /\ strip(At(ls, 0)) = TOOL_CODE THEN 2 ELSE 0

\* lines 294-298: the index the loop starts at
FirstIndex(ls) ==
  IF 0 < Len(ls) /\ strip(At(ls, 0)) = TOOL_CODE THEN 1 ELSE 0

\* the line after the marker is skipped only when it opens a fence
IndexAfterMarkerPeeks(ls, k) ==
  IF k + 1 < Len(ls) /\ startswith(strip(At(ls, k + 1)), FENCE) THEN k + 2 ELSE k + 1

\* the line after the marker is not skipped
IndexAfterMarkerNoSkip(ls, k) == k + 1

\* lines 317-320: the index after a marker at k
IndexAfterMarker(ls, k) == IF k + 1 < Len(ls) THEN k + 2 ELSE k + 1

\* the increment is missed
NextIndexStuck(k) == k

\* lines 375, 392: i += 1
NextIndex(k) == k + 1

\* file_content.append(line_stripped)
AppendStripped(content, line) == Append(content, strip(line))

\* line 381 / 387: file_content.append(line)
AppendLine(content, line) == Append(content, line)

----------------------------------------------------------------------------
(* Inputs *)

SeqsUpTo(S, n) == UNION {[1..m -> S] : m \in 0..n}

RawLines == {MarkerFor(PATH_A), DASH3, FENCE, EMPTY, HELLO, TOOL_CODE, PADDED_FENCE}

NoInput == [blocks |-> <<>>, tag |-> <<>>, sep |-> <<>>]

\* find_files is not called
FinderIdle ==
  /\ tree = <<>>
  /\ finder = <<>>

\* no file, no directory, no write_modified_files call
InitDisk ==
  /\ fs = <<>>
  /\ dirs = {}
  /\ appliers = <<>>
  /\ log = <<>>
  /\ fs0 = <<>>
  /\ args = [yes |-> FALSE]
  /\ FinderIdle

InitParser ==
  /\ lines = <<>>
  /\ i = 0
  /\ current_file = None
  /\ file_content = <<>>
  /\ modified_files = <<>>
  /\ pc = "start"
  /\ openAt = -1
  /\ finalized = <<>>
  /\ iters = 0
  /\ use_debugging = FALSE
  /\ opened = <<>>
  /\ calls = [n |-> 1, prev |-> <<>>]
  /\ frames = <<>>
  /\ InitDisk

\* any response of 1..MaxLines lines over RawLines
Init ==
  /\ \E ls \in SeqsUpTo(RawLines, MaxLines) \ {<<>>} : response = join(ls)
  /\ input = NoInput
  /\ InitParser

\* The response format of create_prompt (src/comutl/base_llm.py, 49-56):
\* ---<path>---, the opening fence with its tag, the content lines, the
\* closing fence
BlockLines(b, tag) ==
  <<MarkerFor(b.path), FENCE \o tag>> \o b.content \o <<FENCE>>

\* the blocks one after the other, the lines of sep after every block but
\* the last
RECURSIVE Synth(_, _, _)
Synth(blocks, tag, sep) ==
  IF blocks = <<>> THEN <<>>
  ELSE IF Len(blocks) = 1 THEN BlockLines(blocks[1], tag)
  ELSE BlockLines(blocks[1], tag) \o sep \o Synth(Tail(blocks), tag, sep)

Paths == {PATH_A, PATH_B}
Tags == {<<>>, TAG_TEXT}
ContentLines == {HELLO, WORLD, FENCE, EMPTY, MarkerFor(PATH_B), DASH3}
SepLines == {EMPTY, NOTE, BLANK}
PlainContents == {<<>>, <<HELLO>>, <<WORLD>>}

Block(p, c) == [path |-> p, content |-> c]

\* responses synthesized from at most two blocks, back to back, holding at
\* most MaxContent content lines in all
InitSynth ==
  /\ \E tag \in Tags :
       \/ input = [blocks |-> <<>>, tag |-> tag, sep |-> <<>>]
       \/ \E p \in Paths, c \in SeqsUpTo(ContentLines, MaxContent) :
            input = [blocks |-> <<Block(p, c)>>, tag |-> tag, sep |-> <<>>]
       \/ \E p1 \in Paths, p2 \in Paths, c1 \in SeqsUpTo(ContentLines, MaxContent) :
            \E c2 \in SeqsUpTo(ContentLines, MaxContent - Len(c1)) :
              input = [blocks |-> <<Block(p1, c1), Block(p2, c2)>>,
                       tag |-> tag, sep |-> <<>>]
  /\ response = join(Synth(input.blocks, input.tag, input.sep))
  /\ InitParser

\* two blocks with plain content and at most MaxSep free-text lines between
\* them
InitSep ==
  /\ \E tag \in Tags, p1 \in Paths, p2 \in Paths,
        c1 \in PlainContents, c2 \in PlainContents,
        sep \in SeqsUpTo(SepLines, MaxSep) :
       input = [blocks |-> <<Block(p1, c1), Block(p2, c2)>>, tag |-> tag, sep |-> sep]
  /\ response = join(Synth(input.blocks, input.tag, input.sep))
  /\ InitParser

OrderSeps == {<<>>, <<EMPTY>>, <<NOTE>>}

\* three blocks with plain content, the same free text (none, a blank line
\* or a note) after the first and the second
InitOrder ==
  /\ \E tag \in Tags, p1 \in Paths, p2 \in Paths, p3 \in Paths,
        c1 \in PlainContents, c2 \in PlainContents, c3 \in PlainContents,
        sep \in OrderSeps :
       input = [blocks |-> <<Block(p1, c1), Block(p2, c2), Block(p3, c3)>>,
                tag |-> tag, sep |-> sep]
  /\ response = join(Synth(input.blocks, input.tag, input.sep))
  /\ InitParser

CallLines == {MarkerFor(PATH_A), FENCE, EMPTY, HELLO, TOOL_CODE}

\* any response of 1..MaxLines lines over CallLines, to be parsed more than
\* once
InitCalls ==
  /\ \E ls \in SeqsUpTo(CallLines, MaxLines) \ {<<>>} : response = join(ls)
  /\ input = NoInput
  /\ InitParser

----------------------------------------------------------------------------
(* parse_response *)

\* current_file and file_content live on from the call before
StartKeepsOpenBlock ==
  /\ pc = "start"
  /\ lines' = split(response)
  /\ i' = FirstIndex(split(response))
  /\ modified_files' = <<>>
  /\ pc' = "loop"
  /\ UNCHANGED <<response, input, env, openAt, finalized, iters, use_debugging, opened, calls,
                 current_file, file_content>>

\* lines 277-301
Start ==
  /\ pc = "start"
  /\ lines' = split(response)
  /\ i' = FirstIndex(split(response))
  /\ current_file' = None
  /\ file_content' = <<>>
  /\ modified_files' = <<>>
  /\ pc' = "loop"
  /\ UNCHANGED <<response, input, env, openAt, finalized, iters, use_debugging, opened, calls>>

InLoop == pc = "loop" /\ i < Len(lines)

\* the test "current_file is None" is missing
OpenBlockAnywhere ==
  /\ InLoop
  /\ StartsAndEndsWithDashes(strip(At(lines, i)))
  /\ current_file' = Chop3(strip(At(lines, i)))
  /\ file_content' = <<>>
  /\ i' = IndexAfterMarker(lines, i)
  /\ openAt' = i'
  /\ opened' = Append(opened, [at |-> i, path |-> Chop3(strip(At(lines, i)))])
  /\ iters' = iters + 1
  /\ UNCHANGED <<response, lines, modified_files, pc, input, env, finalized, use_debugging, calls>>

\* lines 311-326
OpenBlock ==
  /\ InLoop
  /\ StartsAndEndsWithDashes(strip(At(lines, i))) /\ current_file = None
  /\ current_file' = Chop3(strip(At(lines, i)))
  /\ file_content' = <<>>
  /\ i' = IndexAfterMarker(lines, i)
  /\ openAt' = i'
  /\ opened' = Append(opened, [at |-> i, path |-> Chop3(strip(At(lines, i)))])
  /\ iters' = iters + 1
  /\ UNCHANGED <<response, lines, modified_files, pc, input, env, finalized, use_debugging, calls>>

\* every line that starts with the delimiter is a closing candidate
IsClosingCandidateByPrefix ==
  /\ ~(StartsAndEndsWithDashes(strip(At(lines, i))) /\ current_file = None)
  /\ startswith(strip(At(lines, i)), FENCE) /\ current_file # None

\* lines 311, 329: the marker test fails and line_stripped == the
\* delimiter while a block is open
IsClosingCandidate ==
  /\ ~(StartsAndEndsWithDashes(strip(At(lines, i))) /\ current_file = None)
  /\ strip(At(lines, i)) = FENCE /\ current_file # None

\* the result is written while the block goes on: a closing candidate that
\* is kept as content stores the lines seen so far
KeepFenceStoresPending ==
  /\ InLoop
  /\ IsClosingCandidate
  /\ ~NextLineIsNewFileOrEof(lines, i)
  /\ modified_files' = DictSet(modified_files, current_file, join(file_content))
  /\ file_content' = AppendLine(file_content, At(lines, i))
  /\ i' = NextIndex(i)
  /\ iters' = iters + 1
  /\ UNCHANGED <<response, lines, current_file, pc, input, env, openAt, finalized,
                 use_debugging, opened, calls>>

\* the accumulator is not emptied when a block is closed
CloseBlockKeepsContent ==
  /\ InLoop
  /\ IsClosingCandidate
  /\ NextLineIsNewFileOrEof(lines, i)
  /\ modified_files' = DictSet(modified_files, current_file, join(file_content))
  /\ finalized' = Append(finalized, [path |-> current_file, content |-> join(file_content)])
  /\ current_file' = None
  /\ i' = NextIndex(i)
  /\ iters' = iters + 1
  /\ UNCHANGED <<response, lines, file_content, pc, input, env, openAt, use_debugging, opened, calls>>

\* lines 329-376
CloseBlock ==
  /\ InLoop
  /\ IsClosingCandidate
  /\ NextLineIsNewFileOrEof(lines, i)
  /\ modified_files' = DictSet(modified_files, current_file, join(file_content))
  /\ finalized' = Append(finalized, [path |-> current_file, content |-> join(file_content)])
  /\ current_file' = None
  /\ file_content' = <<>>
  /\ i' = NextIndex(i)
  /\ iters' = iters + 1
  /\ UNCHANGED <<response, lines, pc, input, env, openAt, use_debugging, opened, calls>>

\* lines 329-365, 377-381, 392
KeepFence ==
  /\ InLoop
  /\ IsClosingCandidate
  /\ ~NextLineIsNewFileOrEof(lines, i)
  /\ file_content' = AppendLine(file_content, At(lines, i))
  /\ i' = NextIndex(i)
  /\ iters' = iters + 1
  /\ UNCHANGED <<response, lines, current_file, modified_files, pc, input, env, openAt, finalized,
                 use_debugging, opened, calls>>

\* a sentinel line inside a block is dropped
CollectLineDropsSentinel ==
  /\ InLoop
  /\ ~(StartsAndEndsWithDashes(strip(At(lines, i))) /\ current_file = None)
  /\ ~(strip(At(lines, i)) = FENCE /\ current_file # None)
  /\ current_file # None
  /\ file_content' = IF strip(At(lines, i)) = TOOL_CODE THEN file_content
                      ELSE AppendLine(file_content, At(lines, i))
  /\ i' = NextIndex(i)
  /\ iters' = iters + 1
  /\ UNCHANGED <<response, lines, current_file, modified_files, pc, input, env, openAt, finalized,
                 use_debugging, opened, calls>>

\* lines 384-387, 392
CollectLine ==
  /\ InLoop
  /\ ~(StartsAndEndsWithDashes(strip(At(lines, i))) /\ current_file = None)
  /\ ~(strip(At(lines, i)) = FENCE /\ current_file # None)
  /\ current_file # None
  /\ file_content' = AppendLine(file_content, At(lines, i))
  /\ i' = NextIndex(i)
  /\ iters' = iters + 1
  /\ UNCHANGED <<response, lines, current_file, modified_files, pc, input, env, openAt, finalized,
                 use_debugging, opened, calls>>

\* lines 388-392
IgnoreLine ==
  /\ InLoop
  /\ ~(StartsAndEndsWithDashes(strip(At(lines, i))) /\ current_file = None)
  /\ ~(strip(At(lines, i)) = FENCE /\ current_file # None)
  /\ current_file = None
  /\ i' = NextIndex(i)
  /\ iters' = iters + 1
  /\ UNCHANGED <<response, lines, current_file, file_content, modified_files, pc, input, env,
                 openAt, finalized, use_debugging, opened, calls>>

\* an open block without content lines is not written
ReturnSkipsEmptyBlock ==
  /\ pc = "loop"
  /\ ~(i < Len(lines))
  /\ IF current_file # None /\ file_content # <<>>
     THEN /\ modified_files' = DictSet(modified_files, current_file, join(file_content))
          /\ finalized' = Append(finalized, [path |-> current_file, content |-> join(file_content)])
     ELSE UNCHANGED <<modified_files, finalized>>
  /\ pc' = "done"
  /\ UNCHANGED <<response, lines, i, current_file, file_content, input, env, openAt, iters,
                 use_debugging, opened, calls>>

\* lines 303, 394-411: the loop ends, an open block is finalized, return
Return ==
  /\ pc = "loop"
  /\ ~(i < Len(lines))
  /\ IF current_file # None
     THEN /\ modified_files' = DictSet(modified_files, current_file, join(file_content))
          /\ finalized' = Append(finalized, [path |-> current_file, content |-> join(file_content)])
     ELSE UNCHANGED <<modified_files, finalized>>
  /\ pc' = "done"
  /\ UNCHANGED <<response, lines, i, current_file, file_content, input, env, openAt, iters,
                 use_debugging, opened, calls>>

\* lines 303-401 as a function of the loop state: the dict the loop and the
\* end-of-input step leave when started at index k with current_file cur,
\* file_content acc and modified_files d
RECURSIVE Loop(_, _, _, _, _)
Loop(ls, k, cur, acc, d) ==
  IF ~(k < Len(ls))
  THEN IF cur # None THEN DictSet(d, cur, join(acc)) ELSE d
  ELSE LET line_stripped == strip(At(ls, k)) IN
       IF StartsAndEndsWithDashes(line_stripped) /\ cur = None
       THEN Loop(ls, IndexAfterMarker(ls, k), Chop3(line_stripped), <<>>, d)
       ELSE IF line_stripped = FENCE /\ cur # None
       THEN IF NextLineIsNewFileOrEof(ls, k)
            THEN Loop(ls, NextIndex(k), None, <<>>, DictSet(d, cur, join(acc)))
            ELSE Loop(ls, NextIndex(k), cur, AppendLine(acc, At(ls, k)), d)
       ELSE IF cur # None
       THEN Loop(ls, NextIndex(k), cur, AppendLine(acc, At(ls, k)), d)
       ELSE Loop(ls, NextIndex(k), cur, acc, d)

\* lines 275-411: the mapping returned for a response
parse_response(r) == Loop(split(r), FirstIndex(split(r)), None, <<>>, <<>>)

\* ResponseParser1, lines 641-651 and 692: the index after a marker at k;
\* the branch has no continue, so the i += 1 that ends the loop body is
\* executed as well
IndexAfterMarker1(ls, k) == (IF k + 1 < Len(ls) THEN k + 2 ELSE k + 1) + 1

\* ResponseParser1, lines 635-697
RECURSIVE Loop1(_, _, _, _, _)
Loop1(ls, k, cur, acc, d) ==
  IF ~(k < Len(ls))
  THEN IF cur # None THEN DictSet(d, cur, join(acc)) ELSE d
  ELSE LET line_stripped == strip(At(ls, k)) IN
       IF StartsAndEndsWithDashes(line_stripped) /\ cur = None
       THEN Loop1(ls, IndexAfterMarker1(ls, k), Chop3(line_stripped), <<>>, d)
       ELSE IF line_stripped = FENCE /\ cur # None
       THEN IF NextLineIsNewFileOrEof(ls, k)
            THEN Loop1(ls, k + 1, None, <<>>, DictSet(d, cur, join(acc)))
            ELSE Loop1(ls, k + 1, cur, Append(acc, At(ls, k)), d)
       ELSE IF cur # None
       THEN Loop1(ls, k + 1, cur, Append(acc, At(ls, k)), d)
       ELSE Loop1(ls, k + 1, cur, acc, d)

\* ResponseParser1, lines 619-704
parse_response1(r) == Loop1(split(r), FirstIndex(split(r)), None, <<>>, <<>>)

\* ResponseParser2, lines 493-500 and 506: the index after a marker at k;
\* the branch ends with continue
IndexAfterMarker2(ls, k) == IF k + 1 < Len(ls) THEN k + 2 ELSE k + 1

\* ResponseParser2, lines 484-568
RECURSIVE Loop2(_, _, _, _, _)
Loop2(ls, k, cur, acc, d) ==
  IF ~(k < Len(ls))
  THEN IF cur # None THEN DictSet(d, cur, join(acc)) ELSE d
  ELSE LET line_stripped == strip(At(ls, k)) IN
       IF StartsAndEndsWithDashes(line_stripped) /\ cur = None
       THEN Loop2(ls, IndexAfterMarker2(ls, k), Chop3(line_stripped), <<>>, d)
       ELSE IF line_stripped = FENCE /\ cur # None
       THEN IF NextLineIsNewFileOrEof(ls, k)
            THEN Loop2(ls, k + 1, None, <<>>, DictSet(d, cur, join(acc)))
            ELSE Loop2(ls, k + 1, cur, Append(acc, At(ls, k)), d)
       ELSE IF cur # None
       THEN Loop2(ls, k + 1, cur, Append(acc, At(ls, k)), d)
       ELSE Loop2(ls, k + 1, cur, acc, d)

\* ResponseParser2, lines 459-575
parse_response2(r) == Loop2(split(r), FirstIndex(split(r)), None, <<>>, <<>>)

Next ==
  \/ Start
  \/ OpenBlock
  \/ CloseBlock
  \/ KeepFence
  \/ CollectLine
  \/ IgnoreLine
  \/ Return

Spec == Init /\ [][Next]_vars

DASH6 == DASHES \o DASHES
PADDED_SPACED_MARKER == <<" ", " ">> \o DASHES \o <<" ">> \o PATH_A \o <<" ">> \o DASHES \o <<"\t">>
EXTRA_DASH_MARKER == <<"-">> \o MarkerFor(PATH_A)

PathLines == {PADDED_SPACED_MARKER, DASH6, EXTRA_DASH_MARKER, FENCE, HELLO, EMPTY}

\* any response of 1..MaxLines lines over PathLines
InitPaths ==
  /\ \E ls \in SeqsUpTo(PathLines, MaxLines) \ {<<>>} : response = join(ls)
  /\ input = NoInput
  /\ InitParser

SpecPaths == InitPaths /\ [][Next]_vars

LiveLines == {MarkerFor(PATH_A), MarkerFor(PATH_B), FENCE, EMPTY, HELLO}

\* any response of 1..MaxLines lines over LiveLines
InitLive ==
  /\ \E ls \in SeqsUpTo(LiveLines, MaxLines) \ {<<>>} : response = join(ls)
  /\ input = NoInput
  /\ InitParser

\* lines 303-411: an iteration of the loop or the step that ends the call
LoopStep ==
  \/ OpenBlock
  \/ CloseBlock
  \/ KeepFence
  \/ CollectLine
  \/ IgnoreLine
  \/ Return

\* the loop is not suspended: once entered it runs on to the return of the
\* call (no I/O, no wait)
SpecLive == InitLive /\ [][Next]_vars /\ WF_vars(LoopStep)

SpecSynth == InitSynth /\ [][Next]_vars

SpecSep == InitSep /\ [][Next]_vars

SpecOrder == InitOrder /\ [][Next]_vars

\* lines 272-275: parse_response is called again on the same text, on this
\* parser or on one constructed with the other value of use_debugging; the
\* locals of the finished call are dead until the call assigns them anew
CallAgain ==
  /\ pc = "done"
  /\ calls.n < MaxCalls
  /\ pc' = "start"
  /\ use_debugging' \in BOOLEAN
  /\ calls' = [n |-> calls.n + 1, prev |-> modified_files]
  /\ openAt' = -1
  /\ finalized' = <<>>
  /\ iters' = 0
  /\ opened' = <<>>
  /\ UNCHANGED <<response, input, env, lines, i, current_file, file_content, modified_files>>

NextCalls ==
  \/ Next
  \/ CallAgain

SpecCalls == InitCalls /\ [][NextCalls]_vars

----------------------------------------------------------------------------
(* Two parse_response calls at the same time, each on its own response *)

\* lines 277-301: the frame of a call on response r before its first
\* statement
Frame(r) ==
  [response |-> r, lines |-> <<>>, i |-> 0, current_file |-> None,
   file_content |-> <<>>, modified_files |-> <<>>, pc |-> "start"]

\* lines 277-411: one step of a call, on its frame f: the assignments
\* before the loop, one iteration of the loop, or the end-of-input step
Body(f) ==
  IF f.pc = "start"
  THEN [f EXCEPT !.lines = split(f.response),
                 !.i = FirstIndex(split(f.response)),
                 !.current_file = None,
                 !.file_content = <<>>,
                 !.modified_files = <<>>,
                 !.pc = "loop"]
  ELSE IF ~(f.i < Len(f.lines))
  THEN [f EXCEPT !.modified_files =
                    IF f.current_file # None
                    THEN DictSet(f.modified_files, f.current_file, join(f.file_content))
                    ELSE f.modified_files,
                 !.pc = "done"]
  ELSE LET line == At(f.lines, f.i)
           line_stripped == strip(line) IN
       IF StartsAndEndsWithDashes(line_stripped) /\ f.current_file = None
       THEN [f EXCEPT !.i = IndexAfterMarker(f.lines, f.i),
                      !.current_file = Chop3(line_stripped),
                      !.file_content = <<>>]
       ELSE IF line_stripped = FENCE /\ f.current_file # None
       THEN IF NextLineIsNewFileOrEof(f.lines, f.i)
            THEN [f EXCEPT !.modified_files =
                              DictSet(f.modified_files, f.current_file, join(f.file_content)),
                           !.current_file = None,
                           !.file_content = <<>>,
                           !.i = NextIndex(f.i)]
            ELSE [f EXCEPT !.file_content = AppendLine(f.file_content, line),
                           !.i = NextIndex(f.i)]
       ELSE IF f.current_file # None
       THEN [f EXCEPT !.file_content = AppendLine(f.file_content, line),
                      !.i = NextIndex(f.i)]
       ELSE [f EXCEPT !.i = NextIndex(f.i)]

\* the lines a response parsed by thread t is made of
ThreadLines(t) ==
  IF t = 1 THEN {MarkerFor(PATH_A), FENCE, HELLO} ELSE {MarkerFor(PATH_B), FENCE, WORLD}

\* two calls, each on a response of 1..MaxThreadLines lines of its own
InitThreads ==
  /\ \E l1 \in SeqsUpTo(ThreadLines(1), MaxThreadLines) \ {<<>>} :
       \E l2 \in SeqsUpTo(ThreadLines(2), MaxThreadLines) \ {<<>>} :
          frames = <<Frame(join(l1)), Frame(join(l2))>>
  /\ response = <<>>
  /\ input = NoInput
  /\ lines = <<>> /\ i = 0 /\ current_file = None /\ file_content = <<>>
  /\ modified_files = <<>> /\ pc = "start"
  /\ openAt = -1 /\ finalized = <<>> /\ iters = 0 /\ use_debugging = FALSE
  /\ opened = <<>> /\ calls = [n |-> 1, prev |-> <<>>]
  /\ InitDisk

\* file_content is one list that all calls append to and reset
ThreadStepSharedContent(t) ==
  /\ frames[t].pc # "done"
  /\ frames' = [u \in 1..Len(frames) |->
                  IF u = t THEN Body(frames[t])
                  ELSE [frames[u] EXCEPT !.file_content = Body(frames[t]).file_content]]
  /\ UNCHANGED <<response, lines, i, current_file, file_content, modified_files, pc,
                 input, openAt, finalized, iters, use_debugging, opened, calls,
                 fs, dirs, appliers, log, fs0, args, tree, finder>>

\* lines 275-411: the call of thread t takes a step; it reads and writes
\* its own locals only
ThreadStep(t) ==
  /\ frames[t].pc # "done"
  /\ frames' = [frames EXCEPT ![t] = Body(frames[t])]
  /\ UNCHANGED <<response, lines, i, current_file, file_content, modified_files, pc,
                 input, openAt, finalized, iters, use_debugging, opened, calls,
                 fs, dirs, appliers, log, fs0, args, tree, finder>>

NextThreads == \E t \in 1..Len(frames) : ThreadStep(t)

SpecThreads == InitThreads /\ [][NextThreads]_vars

----------------------------------------------------------------------------
(* write_modified_files (lines 413-454) *)

BACKUP_EXT == <<".", "b", "a", "c", "k", "u", "p">>
DOCX_EXT == <<".", "d", "o", "c", "x">>
TXT_EXT == <<".", "t", "x", "t">>
DOT == <<".">>

\* every backup goes to the one file a.txt.backup
BackupNameShared(filename) == PATH_A \o BACKUP_EXT

\* line 429: f"{filename}.backup"
BackupName(filename) == filename \o BACKUP_EXT

LowerChar(c) ==
  CASE c = "D" -> "d" [] c = "O" -> "o" [] c = "C" -> "c" [] c = "X" -> "x"
    [] c = "R" -> "r" [] OTHER -> c

\* str.lower on the letters used here
lower(s) == [n \in 1..Len(s) |-> LowerChar(s[n])]

\* line 422: Path(filename).parent, Path('.') when there is no directory part
ParentOf(filename) ==
  LET slashes == {n \in 1..Len(filename) : filename[n] = "/"} IN
  IF slashes = {} THEN DOT
  ELSE SubSeq(filename, 1, (CHOOSE n \in slashes : \A m \in slashes : m <= n) - 1)

\* the file the content goes to, whatever its name ends with
WriteTargetSamePath(filename) == filename

\* lines 435-437: the file the content goes to
WriteTarget(filename) ==
  IF endswith(lower(filename), DOCX_EXT) THEN filename \o TXT_EXT ELSE filename

PATH_DOCX == <<"R", ".", "D", "O", "C", "X">>
PATH_SUB == <<"s", "/">> \o PATH_B
PATH_A_BACKUP == BackupName(PATH_A)

\* the paths a mapping given to write_modified_files is made of
ApplierPaths == {PATH_A, PATH_A_BACKUP, PATH_DOCX, PATH_SUB}

\* the files these paths can make write_modified_files touch
AllFiles ==
  ApplierPaths \cup {BackupName(p) : p \in ApplierPaths}
               \cup {WriteTarget(p) : p \in ApplierPaths}

\* the content of a file that is on disk before the call
OldOf(f) == <<"old ">> \o f

\* the content the mapping has for path p
NewOf(p) == <<"new ">> \o p

\* the mappings of 1..n entries with distinct paths, as dicts
Mappings(n) ==
  {[m \in 1..Len(ps) |-> [k |-> ps[m], v |-> NewOf(ps[m])]] :
     ps \in {q \in SeqsUpTo(ApplierPaths, n) \ {<<>>} :
               \A a, b \in 1..Len(q) : a # b => q[a] # q[b]}}

\* line 418: the frame of a call on mapping mf before the first entry
Applier(mf) ==
  [mf |-> mf, k |-> 1, pc |-> "mkdir", filename |-> None, existed |-> FALSE,
   prev |-> None]

\* any files on disk, no directory
AnyDisk ==
  /\ fs \in {[f \in AllFiles |-> IF f \in present THEN OldOf(f) ELSE None] :
               present \in SUBSET AllFiles}
  /\ fs0 = fs
  /\ dirs = {}
  /\ log = <<>>
  /\ args = [yes |-> FALSE]
  /\ FinderIdle

\* the parser is not running
ParserIdle ==
  /\ response = <<>>
  /\ input = NoInput
  /\ lines = <<>> /\ i = 0 /\ current_file = None /\ file_content = <<>>
  /\ modified_files = <<>> /\ pc = "start"
  /\ openAt = -1 /\ finalized = <<>> /\ iters = 0 /\ use_debugging = FALSE
  /\ opened = <<>> /\ calls = [n |-> 1, prev |-> <<>>]
  /\ frames = <<>>

\* one call of write_modified_files on a mapping of 1..MaxEntries entries
InitApply ==
  /\ ParserIdle
  /\ AnyDisk
  /\ \E mf \in Mappings(MaxEntries) : appliers = <<Applier(mf)>>

\* two calls at the same time, each on one entry, the two paths distinct
InitParallel ==
  /\ ParserIdle
  /\ AnyDisk
  /\ \E m1, m2 \in Mappings(1) :
       /\ m1[1].k # m2[1].k
       /\ appliers = <<Applier(m1), Applier(m2)>>

AtEntry(w) == appliers[w].k <= Len(appliers[w].mf)

Logged(w, op, files) ==
  Append(log, [w |-> w, k |-> appliers[w].k, op |-> op, files |-> files])

ApplierUnchanged ==
  UNCHANGED <<response, lines, i, current_file, file_content, modified_files, pc,
              input, openAt, finalized, iters, use_debugging, opened, calls, frames,
              fs0, args, tree, finder>>

\* lines 418-426: the next entry; file_path.parent.mkdir(parents=True, exist_ok=True)
ApplyMkdir(w) ==
  /\ appliers[w].pc = "mkdir" /\ AtEntry(w)
  /\ LET filename == appliers[w].mf[appliers[w].k].k IN
     /\ appliers' = [appliers EXCEPT ![w].filename = filename, ![w].pc = "exists"]
     /\ IF ParentOf(filename) # DOT
        THEN /\ dirs' = dirs \cup {ParentOf(filename)}
             /\ log' = Logged(w, "mkdir", {ParentOf(filename)})
        ELSE UNCHANGED <<dirs, log>>
  /\ UNCHANGED fs
  /\ ApplierUnchanged

\* the file at the path is never taken to exist
ApplyExistsNeverFound(w) ==
  /\ appliers[w].pc = "exists"
  /\ appliers' = [appliers EXCEPT ![w].existed = fs[appliers[w].filename] # None,
                                  ![w].prev = fs[appliers[w].filename],
                                  ![w].pc = "write"]
  /\ UNCHANGED <<fs, dirs, log>>
  /\ ApplierUnchanged

\* lines 429-430: os.path.exists(filename)
ApplyExists(w) ==
  /\ appliers[w].pc = "exists"
  /\ LET filename == appliers[w].filename IN
     appliers' = [appliers EXCEPT ![w].existed = fs[filename] # None,
                                  ![w].prev = fs[filename],
                                  ![w].pc = IF fs[filename] # None THEN "rename" ELSE "write"]
  /\ UNCHANGED <<fs, dirs, log>>
  /\ ApplierUnchanged

\* line 431: os.rename(filename, backup_name)
ApplyRename(w) ==
  /\ appliers[w].pc = "rename"
  /\ LET filename == appliers[w].filename IN
     /\ fs[filename] # None
     /\ fs' = [fs EXCEPT ![BackupName(filename)] = fs[filename], ![filename] = None]
     /\ log' = Logged(w, "rename", {filename, BackupName(filename)})
  /\ appliers' = [appliers EXCEPT ![w].pc = "write"]
  /\ UNCHANGED dirs
  /\ ApplierUnchanged

\* lines 435-442: open(filename, 'w'), f.write(content); the entry is done
ApplyWrite(w) ==
  /\ appliers[w].pc = "write"
  /\ LET filename == appliers[w].filename
         content == appliers[w].mf[appliers[w].k].v IN
     /\ fs' = [fs EXCEPT ![WriteTarget(filename)] = content]
     /\ log' = Logged(w, "write", {WriteTarget(filename)})
  /\ appliers' = [appliers EXCEPT ![w].k = @ + 1, ![w].pc = "mkdir"]
  /\ UNCHANGED dirs
  /\ ApplierUnchanged

\* the first failure ends the call
ApplyFailAborts(w) ==
  /\ \/ /\ appliers[w].pc = "mkdir" /\ AtEntry(w)
        /\ ParentOf(appliers[w].mf[appliers[w].k].k) # DOT
     \/ appliers[w].pc = "rename"
     \/ appliers[w].pc = "write"
  /\ log' = Logged(w, "error", {})
  /\ appliers' = [appliers EXCEPT ![w].pc = "done"]
  /\ UNCHANGED <<fs, dirs>>
  /\ ApplierUnchanged

\* lines 450-454: mkdir, rename, open or write raises; the exception is
\* caught and the loop goes on with the next entry.  A write that fails
\* after open leaves the file empty.
ApplyFail(w) ==
  /\ \/ /\ appliers[w].pc = "mkdir" /\ AtEntry(w)
        /\ ParentOf(appliers[w].mf[appliers[w].k].k) # DOT
        /\ UNCHANGED fs
     \/ /\ appliers[w].pc = "rename"
        /\ UNCHANGED fs
     \/ /\ appliers[w].pc = "write"
        /\ \/ UNCHANGED fs
           \/ fs' = [fs EXCEPT ![WriteTarget(appliers[w].filename)] = <<>>]
  /\ log' = Logged(w, "error", {})
  /\ appliers' = [appliers EXCEPT ![w].k = @ + 1, ![w].pc = "mkdir"]
  /\ UNCHANGED dirs
  /\ ApplierUnchanged

\* line 418: no entry is left, the call returns
ApplyReturn(w) ==
  /\ appliers[w].pc = "mkdir" /\ ~AtEntry(w)
  /\ appliers' = [appliers EXCEPT ![w].pc = "done"]
  /\ UNCHANGED <<fs, dirs, log>>
  /\ ApplierUnchanged

NextApply ==
  \/ \E w \in 1..Len(appliers) : ApplyMkdir(w)
  \/ \E w \in 1..Len(appliers) : ApplyExists(w)
  \/ \E w \in 1..Len(appliers) : ApplyRename(w)
  \/ \E w \in 1..Len(appliers) : ApplyWrite(w)
  \/ \E w \in 1..Len(appliers) : ApplyFail(w)
  \/ \E w \in 1..Len(appliers) : ApplyReturn(w)

SpecApply == InitApply /\ [][NextApply]_vars

SpecParallel == InitParallel /\ [][NextApply]_vars

----------------------------------------------------------------------------
(* main, from the response of the LLM on (lines 916-996) *)

LOG_FILE == <<"commander.log">>
JSON_FILE == <<"commander.json">>
METADATA == <<"metadata">>

MainLines == {MarkerFor(PATH_SUB), FENCE, HELLO, EMPTY}

\* the files main and its write_modified_files call can touch
MainFiles == {PATH_SUB, BackupName(PATH_SUB), LOG_FILE, JSON_FILE}

\* the files the LLM was asked to change, and their backups
SourceFiles == MainFiles \ {LOG_FILE, JSON_FILE}

\* line 911: main has a non-empty response of 1..MaxLines lines; the source
\* file is on disk or not; --yes is given or not
InitMain ==
  /\ \E ls \in SeqsUpTo(MainLines, MaxLines) \ {<<>>} :
       response = join(ls) /\ response # <<>>
  /\ input = NoInput
  /\ lines = <<>> /\ i = 0 /\ current_file = None /\ file_content = <<>>
  /\ modified_files = <<>> /\ pc = "main"
  /\ openAt = -1 /\ finalized = <<>> /\ iters = 0 /\ use_debugging = FALSE
  /\ opened = <<>> /\ calls = [n |-> 1, prev |-> <<>>]
  /\ frames = <<>>
  /\ \E present \in BOOLEAN :
       fs = [f \in MainFiles |-> IF f = PATH_SUB /\ present THEN OldOf(f) ELSE None]
  /\ fs0 = fs
  /\ dirs = {}
  /\ appliers = <<>>
  /\ log = <<>>
  /\ \E yes \in BOOLEAN : args = [yes |-> yes]
  /\ FinderIdle

MainUnchanged ==
  UNCHANGED <<response, lines, i, current_file, file_content, modified_files,
              input, openAt, finalized, iters, use_debugging, opened, calls, frames,
              fs0, args, tree, finder>>

\* lines 916-928: the response is saved to commander.log (a failure is
\* caught), then parse_response is called
MainSaveLog ==
  /\ pc = "main"
  /\ \/ fs' = [fs EXCEPT ![LOG_FILE] = response]
     \/ UNCHANGED fs
  /\ pc' = "start"
  /\ UNCHANGED <<dirs, appliers, log>>
  /\ MainUnchanged

\* lines 930-938: the parent directory of every path is made (a failure is
\* caught)
MainEnsureDirs ==
  /\ pc = "done"
  /\ \/ dirs' = dirs \cup {ParentOf(p) : p \in {q \in Keys(modified_files) : ParentOf(q) # DOT}}
     \/ UNCHANGED dirs
  /\ pc' = "json"
  /\ UNCHANGED <<fs, appliers, log>>
  /\ MainUnchanged

\* lines 940-975: the metadata are saved to commander.json (a failure is
\* caught)
MainSaveJson ==
  /\ pc = "json"
  /\ \/ fs' = [fs EXCEPT ![JSON_FILE] = METADATA]
     \/ UNCHANGED fs
  /\ pc' = "check"
  /\ UNCHANGED <<dirs, appliers, log>>
  /\ MainUnchanged

\* the empty mapping is confirmed and written like any other
MainCheckAlwaysProceeds ==
  /\ pc = "check"
  /\ pc' = "confirm"
  /\ UNCHANGED <<fs, dirs, appliers, log>>
  /\ MainUnchanged

\* lines 977-979: if not modified_files: return
MainCheck ==
  /\ pc = "check"
  /\ pc' = IF modified_files = <<>> THEN "returned" ELSE "confirm"
  /\ UNCHANGED <<fs, dirs, appliers, log>>
  /\ MainUnchanged

\* lines 986-992: with --yes no question is asked; otherwise the user is
\* asked and every answer but y cancels
MainConfirm ==
  /\ pc = "confirm"
  /\ IF args.yes
     THEN pc' = "write" /\ UNCHANGED log
     ELSE \E confirm \in {"y", "Y", "n", ""} :
            /\ log' = Append(log, [w |-> 0, k |-> 0, op |-> "prompt", files |-> {},
                                   answer |-> confirm])
            /\ pc' = IF confirm \in {"y", "Y"} THEN "write" ELSE "cancelled"
  /\ UNCHANGED <<fs, dirs, appliers>>
  /\ MainUnchanged

\* line 995: response_parser.write_modified_files(modified_files)
MainWrite ==
  /\ pc = "write"
  /\ appliers' = <<Applier(modified_files)>>
  /\ pc' = "applying"
  /\ UNCHANGED <<fs, dirs, log>>
  /\ MainUnchanged

\* lines 997-1002: write_modified_files has returned, main ends
MainComplete ==
  /\ pc = "applying"
  /\ appliers[1].pc = "done"
  /\ pc' = "complete"
  /\ UNCHANGED <<fs, dirs, appliers, log>>
  /\ MainUnchanged

NextMain ==
  \/ MainSaveLog
  \/ Next
  \/ MainEnsureDirs
  \/ MainSaveJson
  \/ MainCheck
  \/ MainConfirm
  \/ MainWrite
  \/ NextApply
  \/ MainComplete

SpecMain == InitMain /\ [][NextMain]_vars

----------------------------------------------------------------------------
(* FileProcessor.find_files (lines 73-160) *)

\* A directory or a file is the sequence of its Path.parts below the
\* directory searched, which is <<>>; a name is a text.
NAME_A == <<"a">>
NAME_B == <<"b">>
NAME_HIDDEN == <<".", "h">>
NAME_PYCACHE == <<"_", "_", "p", "y", "c", "a", "c", "h", "e", "_", "_">>
NAME_F_PY == <<"f", ".", "p", "y">>
DUNDER_PYCACHE == NAME_PYCACHE

\* the directories of the tree searched
TreeDirs ==
  {<<>>, <<NAME_A>>, <<NAME_A, NAME_B>>, <<NAME_A, NAME_HIDDEN>>, <<NAME_HIDDEN>>,
   <<NAME_PYCACHE>>, <<NAME_PYCACHE, NAME_B>>}

\* directory_path.iterdir(), the directories of it
SubDirs(d) == {c \in TreeDirs : Len(c) = Len(d) + 1 /\ SubSeq(c, 1, Len(d)) = d}

\* no directory is skipped for its .skip-commander file
should_skip_never(d) == FALSE

\* lines 73-76: _should_skip_directory
should_skip_directory(d) == d \in tree.skip

\* lines 120, 148: the name starts with "." or with "__pycache__"
IsHiddenName(name) == startswith(name, DOT) \/ startswith(name, DUNDER_PYCACHE)

\* lines 90-93, 108-113: the files of d that match *.<extension>
Glob(d) == IF d \in tree.files THEN <<d \o <<NAME_F_PY>>>> ELSE <<>>

\* any tree over TreeDirs, a recursive or a non-recursive FileProcessor
\* (lines 67-71) and find_files about to be called
InitFind ==
  /\ ParserIdle
  /\ fs = <<>> /\ dirs = {} /\ appliers = <<>> /\ log = <<>> /\ fs0 = <<>>
  /\ args = [yes |-> FALSE]
  /\ \E skip \in SUBSET TreeDirs : \E files \in SUBSET TreeDirs :
       tree = [skip |-> skip, files |-> files]
  /\ \E recursive \in BOOLEAN :
       finder = [recursive |-> recursive, stack |-> <<>>, found_files |-> <<>>,
                 skipped_directories |-> <<>>, files_found |-> <<>>, pc |-> "call"]

FinderUnchanged ==
  UNCHANGED <<response, lines, i, current_file, file_content, modified_files, pc,
              input, openAt, finalized, iters, use_debugging, opened, calls, frames,
              fs, dirs, appliers, log, fs0, args, tree>>

\* lines 78-95, 97-113, 137-140: find_files calls the search of the
\* directory; a directory with .skip-commander is recorded and gives no
\* file; otherwise its own files are found and, in recursive mode, its
\* subdirectories are to be looked at
FindEnter ==
  /\ finder.pc = "call"
  /\ IF should_skip_directory(<<>>)
     THEN finder' = [finder EXCEPT !.skipped_directories = Append(@, <<>>),
                                   !.pc = "filter"]
     ELSE IF finder.recursive
     THEN finder' = [finder EXCEPT !.found_files = @ \o Glob(<<>>),
                                   !.stack = <<[dir |-> <<>>, todo |-> SubDirs(<<>>)]>>,
                                   !.pc = "walk"]
     ELSE finder' = [finder EXCEPT !.found_files = @ \o Glob(<<>>),
                                   !.pc = "filter"]
  /\ FinderUnchanged

\* lines 116-131 and, for the recursive call, 97-113: the next item of
\* iterdir(), in any order; the caller tests .skip-commander (line 124) and
\* the call tests it again (line 103)
FindVisitChild ==
  /\ finder.pc = "walk"
  /\ finder.stack # <<>>
  /\ LET top == finder.stack[Len(finder.stack)] IN
     \E item \in top.todo :
        LET rest == [finder.stack EXCEPT ![Len(finder.stack)].todo = @ \ {item}]
            name == item[Len(item)] IN
        IF IsHiddenName(name)
        THEN finder' = [finder EXCEPT !.stack = rest]
        ELSE IF should_skip_directory(item)
        THEN finder' = [finder EXCEPT !.stack = rest,
                                      !.skipped_directories = Append(@, item)]
        ELSE IF should_skip_directory(item)
        THEN finder' = [finder EXCEPT !.stack = rest,
                                      !.skipped_directories = Append(@, item)]
        ELSE finder' = [finder EXCEPT !.stack = Append(rest, [dir |-> item, todo |-> SubDirs(item)]),
                                      !.found_files = @ \o Glob(item)]
  /\ FinderUnchanged

\* lines 116, 133: iterdir() is exhausted, the search of the directory
\* returns
FindReturn ==
  /\ finder.pc = "walk"
  /\ finder.stack # <<>>
  /\ finder.stack[Len(finder.stack)].todo = {}
  /\ finder' = [finder EXCEPT !.stack = SubSeq(@, 1, Len(@) - 1),
                               !.pc = IF Len(finder.stack) = 1 THEN "filter" ELSE "walk"]
  /\ FinderUnchanged

\* lines 142-160: files below a hidden or __pycache__ part are filtered
\* out, the rest is stored and returned
FindFilter ==
  /\ finder.pc = "filter"
  /\ finder' = [finder EXCEPT
                  !.files_found =
                     SelectSeq(finder.found_files,
                               LAMBDA f : ~\E n \in 1..Len(f) : IsHiddenName(f[n])),
                  !.pc = "done"]
  /\ FinderUnchanged

NextFind ==
  \/ FindEnter
  \/ FindVisitChild
  \/ FindReturn
  \/ FindFilter

SpecFind == InitFind /\ [][NextFind]_vars

----------------------------------------------------------------------------
(* Vocabulary of the specification (spec.md, section 3) *)

\* Marker Line: stripped text starts and ends with --- and has at least 6
\* characters
IsMarkerLine(l) == StartsAndEndsWithDashes(strip(l)) /\ Len(strip(l)) >= 6

\* Fence Line: stripped text is exactly the 3-backtick delimiter
IsFenceLine(l) == strip(l) = FENCE

IsBlankLine(l) == strip(l) = <<>>

\* what the parser itself takes for a marker
LooksLikeMarker(l) == StartsAndEndsWithDashes(strip(l))

\* content without fence and marker lines
PlainContent(c) == \A k \in 1..Len(c) : ~IsFenceLine(c[k]) /\ ~IsMarkerLine(c[k])

\* the mapping a sequence of blocks stands for: per path, the content of
\* the last block with that path
Expected(blocks) ==
  {<<blocks[n].path, join(blocks[n].content)>> : n \in
     {n \in 1..Len(blocks) :
        \A m \in (n + 1)..Len(blocks) : blocks[m].path # blocks[n].path}}

IsMapping(d, pairs) == Items(d) = pairs /\ Len(d) = Cardinality(pairs)

Done == pc = "done"

\* a loop iteration is about to process a fence line while a block is open
AtFenceInBlock == InLoop /\ current_file # None /\ IsFenceLine(At(lines, i))

ExampleBlocks == <<Block(PATH_A, <<HELLO>>), Block(PATH_B, <<WORLD>>)>>

ExampleResult == <<[k |-> PATH_A, v |-> HELLO], [k |-> PATH_B, v |-> WORLD]>>

----------------------------------------------------------------------------
(* Claims *)

\* C1: a response made of well-formed blocks back to back (content free of
\* fence and marker lines) parses to one entry per distinct path, holding
\* the block's content lines joined with "\n"; the 8-line example of the
\* specification parses to {a.txt: hello, b.txt: world}.
C1_WellFormedBlocks ==
  (Done /\ input.sep = <<>>
        /\ \A n \in 1..Len(input.blocks) : PlainContent(input.blocks[n].content))
  => /\ IsMapping(modified_files, Expected(input.blocks))
     /\ (input.blocks = ExampleBlocks => modified_files = ExampleResult)

C1_Witness ==
  /\ Done
  /\ input.blocks = ExampleBlocks /\ input.tag = TAG_TEXT
  /\ Len(lines) = 8
  /\ modified_files = ExampleResult

\* the content has no fence line that is directly followed by a line the
\* parser takes for a marker
NoFenceBeforeMarker(c) ==
  \A k \in 1..(Len(c) - 1) : IsFenceLine(c[k]) => ~LooksLikeMarker(c[k + 1])

\* nor one that is followed by a blank line and then such a line
NoFenceBlankMarker(c) ==
  \A k \in 1..(Len(c) - 2) :
    (IsFenceLine(c[k]) /\ IsBlankLine(c[k + 1])) => ~LooksLikeMarker(c[k + 2])

DistinctPaths(blocks) ==
  \A m, n \in 1..Len(blocks) : m # n => blocks[m].path # blocks[n].path

RoundTrips ==
  IsMapping(modified_files,
            {<<input.blocks[n].path, join(input.blocks[n].content)>> :
               n \in 1..Len(input.blocks)})

\* no line of the content is ---, ---- or -----
NoShortDashes(c) ==
  \A k \in 1..Len(c) :
    strip(c[k]) \notin {<<"-", "-", "-">>, <<"-", "-", "-", "-">>,
                        <<"-", "-", "-", "-", "-">>}

\* C2 as stated: every mapping whose contents have no embedded fence line
\* directly followed by a marker line (or by the end of input, which the
\* closing fence rules out) round-trips.  Stated for contents without ---,
\* ---- and ----- lines, the lines C5 is about, where Marker Line and the
\* parser's marker test agree.
C2_RoundTripAsStated ==
  (Done /\ DistinctPaths(input.blocks)
        /\ \A n \in 1..Len(input.blocks) :
             /\ NoShortDashes(input.blocks[n].content)
             /\ \A k \in 1..(Len(input.blocks[n].content) - 1) :
                  IsFenceLine(input.blocks[n].content[k])
                    => ~IsMarkerLine(input.blocks[n].content[k + 1]))
  => RoundTrips

\* C2, amended: the mapping round-trips provided no embedded fence line is
\* followed, directly or after one blank line, by a line whose stripped text
\* starts and ends with ---.
C2_RoundTrip ==
  (Done /\ DistinctPaths(input.blocks)
        /\ \A n \in 1..Len(input.blocks) :
             /\ NoFenceBeforeMarker(input.blocks[n].content)
             /\ NoFenceBlankMarker(input.blocks[n].content))
  => RoundTrips

C2_Witness ==
  /\ Done
  /\ Len(input.blocks) = 2 /\ DistinctPaths(input.blocks)
  /\ \E n \in 1..2 : \E k \in 1..Len(input.blocks[n].content) :
       IsFenceLine(input.blocks[n].content[k])
  /\ \A n \in 1..2 : /\ NoFenceBeforeMarker(input.blocks[n].content)
                     /\ NoFenceBlankMarker(input.blocks[n].content)
  /\ RoundTrips

\* C3: free text between well-formed blocks is ignored: the result is the
\* mapping of the blocks alone (what C1 gives for the response without the
\* separating lines), one entry per block.
C3_FreeTextIgnored ==
  Done => IsMapping(modified_files, Expected(input.blocks))

\* the closing rule of the specification, section 4.2, with its Marker Line
SpecClose(ls, k) ==
  \/ k + 1 >= Len(ls)
  \/ IsMarkerLine(At(ls, k + 1))
  \/ /\ IsBlankLine(At(ls, k + 1))
     /\ (k + 2 >= Len(ls) \/ IsMarkerLine(At(ls, k + 2)))

Closes == current_file' = None /\ i' = i + 1

KeptAsContent ==
  /\ file_content' = Append(file_content, At(lines, i))
  /\ current_file' = current_file
  /\ modified_files' = modified_files

\* C4: a fence line met while a block is open closes the block exactly when
\* it is the last line, or the next line is a Marker Line, or the next line
\* is blank and is the last line or is followed by a Marker Line; otherwise
\* it is kept as content and the block stays open.
C4_CloseIff ==
  [][AtFenceInBlock =>
       /\ Closes <=> SpecClose(lines, i)
       /\ ~SpecClose(lines, i) => KeptAsContent]_vars

ShortDashes == {<<"-", "-", "-">>, <<"-", "-", "-", "-">>, <<"-", "-", "-", "-", "-">>}

\* C5: a line whose stripped text is ---, ---- or ----- never opens a block
\* while scanning and never makes the fence line before it count as a close.
C5_ShortDashesAreNoMarker ==
  [][/\ (InLoop /\ current_file = None /\ strip(At(lines, i)) \in ShortDashes)
          => current_file' = None
     /\ (AtFenceInBlock /\ i + 1 < Len(lines) /\ strip(At(lines, i + 1)) \in ShortDashes)
          => current_file' = current_file]_vars

\* C6: a fence line inside a block that is followed by an ordinary line (not
\* blank, not a Marker Line) is appended verbatim and the block stays open.
C6_EmbeddedFenceKept ==
  [][(/\ AtFenceInBlock
      /\ i + 1 < Len(lines)
      /\ ~IsBlankLine(At(lines, i + 1))
      /\ ~IsMarkerLine(At(lines, i + 1)))
     => KeptAsContent]_vars

\* C7: when the input ends while a block is open, the result maps the
\* block's path to the join of all lines from the first line after the
\* discarded one to the last line of input, fence lines included.
C7_TruncationTolerance ==
  (Done /\ current_file # None)
  => /\ current_file \in Keys(modified_files)
     /\ Get(modified_files, current_file)
          = join(SubSeq(lines, openAt + 1, Len(lines)))

C7_Witness ==
  /\ Done /\ current_file # None
  /\ \E k \in (openAt + 1)..Len(lines) : lines[k] # strip(lines[k]) /\ IsFenceLine(lines[k])
  /\ Get(modified_files, current_file) = join(SubSeq(lines, openAt + 1, Len(lines)))

\* C8: for every path finalized during the parse the result holds exactly
\* one entry, whose value is the content of the last block finalized under
\* that path.
C8_DuplicateOverwrite ==
  Done =>
    \A n \in 1..Len(finalized) :
      (\A m \in (n + 1)..Len(finalized) : finalized[m].path # finalized[n].path)
      => /\ Cardinality({m \in 1..Len(modified_files) :
                           modified_files[m].k = finalized[n].path}) = 1
         /\ Get(modified_files, finalized[n].path) = finalized[n].content

C8_Witness ==
  /\ Done
  /\ Len(finalized) = 2
  /\ finalized[1].path = finalized[2].path
  /\ finalized[1].content # finalized[2].content
  /\ modified_files = <<[k |-> finalized[2].path, v |-> finalized[2].content]>>

\* C9: a response without any Marker Line parses to the empty mapping.
C9_NoMarkerEmpty ==
  (Done /\ \A k \in 1..Len(lines) : ~IsMarkerLine(lines[k]))
  => modified_files = <<>>

\* C10: every loop iteration reads a line inside the input and moves the
\* index forward by 1 or 2 without passing the end, so there are at most
\* len(lines) iterations, after which the call returns.
C10_Terminates ==
  [][/\ pc = "loop" => (i >= 0 /\ i <= Len(lines) /\ iters <= i)
     /\ InLoop => /\ i' \in {i + 1, i + 2}
                  /\ i' <= Len(lines)
                  /\ iters' = iters + 1
                  /\ iters' <= Len(lines)
                  /\ pc' = "loop"
     /\ (pc = "loop" /\ ~InLoop) => pc' = "done"]_vars

C10_Witness ==
  /\ Done
  /\ iters < Len(lines)
  /\ iters >= 3
  /\ \E k \in 1..Len(lines) : IsFenceLine(lines[k])
  /\ \E k \in 1..Len(lines) : IsBlankLine(lines[k])
  /\ \E k \in 1..Len(lines) : LooksLikeMarker(lines[k])

\* the response with the sentinel line put in front
WithSentinel(r) == TOOL_CODE \o <<"\n">> \o r

\* C11: parsing a response with the line of the sentinel put in front gives
\* the same mapping as parsing the response alone.
C11_PreambleSkip ==
  Done => modified_files = parse_response(WithSentinel(response))

C11_Witness ==
  /\ Done
  /\ strip(lines[1]) # TOOL_CODE
  /\ LooksLikeMarker(lines[1])
  /\ Len(modified_files) = 2
  /\ modified_files = parse_response(WithSentinel(response))

\* the marker that opened the block opened last
LastOpened == opened[Len(opened)]

\* C12: when a marker is recognized while scanning, the block opens with an
\* empty accumulator, the result is untouched and the index moves past the
\* next line, whatever that line is; the skipped line is never processed,
\* and the content of the open block is made of the lines from the second
\* line after the marker on.
C12_LineAfterMarkerDiscarded ==
  [][/\ (InLoop /\ current_file = None /\ LooksLikeMarker(At(lines, i)))
          => /\ current_file' = Chop3(strip(At(lines, i)))
             /\ file_content' = <<>>
             /\ modified_files' = modified_files
             /\ i' = IF i + 1 < Len(lines) THEN i + 2 ELSE i + 1
             /\ opened' = Append(opened, [at |-> i, path |-> current_file'])
     /\ (InLoop /\ opened # <<>>) => i # LastOpened.at + 1
     /\ (pc = "loop" /\ current_file # None)
          => file_content = SubSeq(lines, LastOpened.at + 3, i)]_vars

C12_Witness ==
  /\ Done
  /\ Len(opened) = 1
  /\ LastOpened.at + 2 < Len(lines)
  /\ IsMarkerLine(At(lines, LastOpened.at + 1))
  /\ modified_files = <<[k |-> LastOpened.path,
                         v |-> join(SubSeq(lines, LastOpened.at + 3, Len(lines)))]>>

\* C13: when the marker that opened the last block is the last line of the
\* input or is followed by the skipped line only, the result maps its path
\* to the empty string.
C13_MarkerAtEnd ==
  (Done /\ opened # <<>> /\ LastOpened.at + 2 >= Len(lines))
  => /\ LastOpened.path \in Keys(modified_files)
     /\ Get(modified_files, LastOpened.path) = <<>>

C13_Witness ==
  /\ Done
  /\ opened # <<>>
  /\ LastOpened.at + 2 = Len(lines)
  /\ LastOpened.path = PATH_A
  /\ At(lines, LastOpened.at + 1) = HELLO
  /\ Get(modified_files, PATH_A) = <<>>

OpenedPaths == {opened[n].path : n \in 1..Len(opened)}

KeyOrder(d) == [n \in 1..Len(d) |-> d[n].k]

\* the paths of the finalizations, each at its first occurrence only
FirstFinalized ==
  LET first == {n \in 1..Len(finalized) :
                  \A m \in 1..(n - 1) : finalized[m].path # finalized[n].path}
      Nth[n \in 0..Len(finalized)] ==
        IF n = 0 THEN <<>>
        ELSE IF n \in first THEN Append(Nth[n - 1], finalized[n].path)
        ELSE Nth[n - 1]
  IN Nth[Len(finalized)]

\* C15: the keys of the result come in the order in which the paths were
\* first finalized.
C15_FirstFinalizedOrder ==
  (pc \in {"loop", "done"}) => KeyOrder(modified_files) = FirstFinalized

C15_Witness ==
  /\ Done
  /\ Len(finalized) = 3
  /\ finalized[1].path = PATH_B /\ finalized[2].path = PATH_A
  /\ finalized[3].path = PATH_B
  /\ KeyOrder(modified_files) = <<PATH_B, PATH_A>>

\* the paths of the finalizations, each at its last occurrence only
LastFinalized ==
  LET last == {n \in 1..Len(finalized) :
                 \A m \in (n + 1)..Len(finalized) : finalized[m].path # finalized[n].path}
      Nth[n \in 0..Len(finalized)] ==
        IF n = 0 THEN <<>>
        ELSE IF n \in last THEN Append(Nth[n - 1], finalized[n].path)
        ELSE Nth[n - 1]
  IN Nth[Len(finalized)]

\* C16 as stated: a path finalized twice takes the position of the later
\* finalization in the key order; blocks finalized in the order a, b, a give
\* the key order b, a.
C16_OverwriteMovesKey ==
  Done => KeyOrder(modified_files) = LastFinalized

\* a step that finalizes a block whose path is already a key
Overwrites ==
  /\ Len(finalized') = Len(finalized) + 1
  /\ finalized'[Len(finalized')].path \in Keys(modified_files)

\* C16, amended: a path finalized twice keeps the position of its first
\* finalization; the overwrite replaces the value and moves no key, so
\* blocks finalized in the order a, b, a give the key order a, b.
C16_OverwriteKeepsPosition ==
  [][/\ Overwrites
          => /\ KeyOrder(modified_files') = KeyOrder(modified_files)
             /\ Get(modified_files', finalized'[Len(finalized')].path)
                  = finalized'[Len(finalized')].content
     /\ (Done /\ Len(finalized) = 3
             /\ finalized[1].path = finalized[3].path
             /\ finalized[1].path # finalized[2].path)
          => KeyOrder(modified_files) = <<finalized[1].path, finalized[2].path>>]_vars

C16_Witness ==
  /\ Done
  /\ Len(finalized) = 3
  /\ finalized[1].path = PATH_A /\ finalized[2].path = PATH_B
  /\ finalized[3].path = PATH_A
  /\ finalized[1].content # finalized[3].content
  /\ modified_files = <<[k |-> PATH_A, v |-> finalized[3].content],
                        [k |-> PATH_B, v |-> finalized[2].content]>>

\* the step closes the open block at a fence line
IsCloseStep == AtFenceInBlock /\ NextLineIsNewFileOrEof(lines, i) /\ current_file' = None

\* the step leaves the loop with a block open
IsEofStep == pc = "loop" /\ ~InLoop /\ current_file # None /\ pc' = "done"

\* C17: the result changes only in a close step or in the end-of-input
\* step, and then by one write of the open block; while a block is open it
\* has not been written: the writes so far are one per block opened before
\* it, and at the end one per opened block.
C17_WrittenOnceAtClose ==
  [][/\ (modified_files' # modified_files \/ finalized' # finalized)
          => /\ IsCloseStep \/ IsEofStep
             /\ modified_files' = DictSet(modified_files, current_file, join(file_content))
             /\ finalized' = Append(finalized, [path |-> current_file,
                                                content |-> join(file_content)])
     /\ (IsCloseStep \/ IsEofStep) => Len(finalized') = Len(finalized) + 1
     /\ (pc = "loop" /\ current_file # None) => Len(finalized) = Len(opened) - 1
     /\ (pc = "loop" /\ current_file = None) => Len(finalized) = Len(opened)
     /\ Done => Len(finalized) = Len(opened)]_vars

C17_Witness ==
  /\ pc = "loop"
  /\ current_file # None
  /\ Len(file_content) >= 2
  /\ \E k \in 1..Len(file_content) : IsFenceLine(file_content[k])
  /\ Len(opened) = 1
  /\ modified_files = <<>>

\* v is the given lines with one line break between two of them and nothing
\* else
IsJoinOf(v, ls) == IF ls = <<>> THEN v = <<>> ELSE split(v) = ls

\* the content written by the step
Written == finalized'[Len(finalized')].content

\* C18: the accumulator of an open block is the run of input lines from
\* its first content line up to the current line, unstripped and in input
\* order; a written content is these lines with single line breaks between
\* them, and the closing fence is not among them.
C18_ContentVerbatim ==
  [][/\ (pc = "loop" /\ current_file # None)
          => file_content = SubSeq(lines, openAt + 1, i)
     /\ finalized' # finalized
          => /\ IsJoinOf(Written, file_content)
             /\ IsCloseStep => file_content = SubSeq(lines, openAt + 1, i)]_vars

C18_Witness ==
  /\ Done
  /\ current_file = None
  /\ IsFenceLine(lines[Len(lines)])
  /\ Len(finalized) = 1
  /\ finalized[1].content = PADDED_FENCE \o <<"\n">> \o HELLO
  /\ modified_files = <<[k |-> PATH_A, v |-> PADDED_FENCE \o <<"\n">> \o HELLO]>>

NewlineCount(t) == Cardinality({k \in 1..Len(t) : t[k] = "\n"})

\* C19: the lexer yields one line more than the text has line breaks,
\* keeps empty lines, leaves no line break inside a line, and joining the
\* lines gives the text back; the empty text yields the one empty line.
C19_LexerRoundTrip ==
  (pc \in {"loop", "done"})
  => /\ Len(lines) = NewlineCount(response) + 1
     /\ \A k \in 1..Len(lines) : NewlineCount(lines[k]) = 0
     /\ join(lines) = response
     /\ response = <<>> => lines = << <<>> >>

C19_Witness ==
  /\ pc = "loop"
  /\ NewlineCount(response) = 3
  /\ Len(lines) = 4
  /\ lines[1] = <<>> /\ lines[2] = PADDED_FENCE /\ lines[3] = <<>> /\ lines[4] = <<>>
  /\ join(lines) = response

\* C20: the mapping returned is a function of the text alone: every call
\* returns the mapping of the text, and a later call on the same text,
\* with either value of use_debugging, returns what the call before did.
C20_Deterministic ==
  Done => /\ modified_files = parse_response(response)
          /\ calls.n > 1 => modified_files = calls.prev

C20_Witness ==
  /\ Done
  /\ calls.n = 2
  /\ use_debugging
  /\ current_file # None
  /\ Len(modified_files) = 1
  /\ modified_files[1].v # <<>>
  /\ modified_files = calls.prev

\* C21: under every interleaving of the steps of two parse_response calls
\* on independent inputs, each call returns the mapping it returns when run
\* alone.
C21_NoInterference ==
  \A t \in 1..Len(frames) :
     frames[t].pc = "done" => frames[t].modified_files = parse_response(frames[t].response)

C21_Witness ==
  /\ Len(frames) = 2
  /\ frames[1].pc = "done" /\ frames[2].pc = "loop"
  /\ frames[2].current_file = PATH_B /\ frames[2].file_content = <<WORLD>>
  /\ frames[1].modified_files = <<[k |-> PATH_A, v |-> HELLO]>>
  /\ frames[1].response = join(<<MarkerFor(PATH_A), FENCE, HELLO>>)

\* C22: for every entry (path, content) applied without I/O failure, after
\* the entry the file at path holds exactly content, and if a file existed at
\* path before, its previous content is at path + ".backup", replacing any
\* backup that was there.
C22_EntryApplied ==
  [][\A w \in 1..Len(appliers) :
       ApplyWrite(w) =>
         LET path == appliers[w].filename
             content == appliers[w].mf[appliers[w].k].v IN
         /\ fs'[path] = content
         /\ appliers[w].existed => fs'[BackupName(path)] = appliers[w].prev]_vars

\* C22 for the paths that do not end in .docx
C22_EntryAppliedNoDocx ==
  [][\A w \in 1..Len(appliers) :
       ApplyWrite(w) /\ WriteTarget(appliers[w].filename) = appliers[w].filename =>
         LET path == appliers[w].filename
             content == appliers[w].mf[appliers[w].k].v IN
         /\ fs'[path] = content
         /\ appliers[w].existed => fs'[BackupName(path)] = appliers[w].prev]_vars

\* how the entries of call w ended, in order: written or failed
Outcomes(w) == SelectSeq(log, LAMBDA e : e.w = w /\ e.op \in {"write", "error"})

\* C23: a failure of directory creation, backup rename or write is caught
\* for its entry only: when the call returns every entry of the mapping has
\* been processed, once and in mapping order, whichever entries failed.
C23_FailureIsolated ==
  \A w \in 1..Len(appliers) :
     /\ appliers[w].pc = "done" =>
          /\ Len(Outcomes(w)) = Len(appliers[w].mf)
          /\ \A n \in 1..Len(Outcomes(w)) : Outcomes(w)[n].k = n
     /\ \A n \in 1..Len(Outcomes(w)) : Outcomes(w)[n].k = n

C23_Witness ==
  /\ Len(appliers) = 1
  /\ appliers[1].pc = "done"
  /\ Len(appliers[1].mf) = 2
  /\ appliers[1].mf[1].k = PATH_A
  /\ Len(log) = 2
  /\ log[1].op = "error" /\ log[1].k = 1
  /\ log[2].op = "write" /\ log[2].k = 2
  /\ fs[PATH_A] = OldOf(PATH_A)
  /\ fs[PATH_A_BACKUP] = NewOf(PATH_A_BACKUP)

\* the place of an operation within its entry
StepRank(op) == CASE op = "mkdir" -> 1 [] op = "rename" -> 2 [] OTHER -> 3

\* C24: entries are processed one at a time in mapping order; within an
\* entry the steps come in the order ensure-parent-directory, rename to
\* backup, write; and when the content is written no file is at path any
\* more: a file that was there has been renamed to its backup before.
C24_BackupBeforeWrite ==
  /\ [](\A a, b \in 1..Len(log) :
          a < b =>
            \/ log[a].k < log[b].k
            \/ log[a].k = log[b].k /\ StepRank(log[a].op) < StepRank(log[b].op))
  /\ [][\A w \in 1..Len(appliers) :
          ApplyWrite(w) =>
            /\ fs[appliers[w].filename] = None
            /\ appliers[w].existed =>
                 \E a \in 1..Len(log) :
                    /\ log[a].k = appliers[w].k /\ log[a].op = "rename"
                    /\ log[a].files = {appliers[w].filename, BackupName(appliers[w].filename)}]_vars

C24_Witness ==
  /\ Len(appliers) = 1
  /\ appliers[1].pc = "done"
  /\ Len(log) = 3
  /\ log[1].op = "mkdir" /\ log[2].op = "rename" /\ log[3].op = "write"
  /\ fs[PATH_SUB] = NewOf(PATH_SUB)
  /\ fs[BackupName(PATH_SUB)] = OldOf(PATH_SUB)

\* the files of the operations call w has done
FilesOf(w) == UNION {log[a].files : a \in {b \in 1..Len(log) : log[b].w = w}}

\* lines 429-441 without failure, on the files f: the entry (path, content)
\* applied in one go
ApplyEntry(f, path, content) ==
  LET renamed == IF f[path] # None
                 THEN [f EXCEPT ![BackupName(path)] = f[path], ![path] = None]
                 ELSE f IN
  [renamed EXCEPT ![WriteTarget(path)] = content]

BothApplied ==
  /\ Len(appliers) = 2
  /\ \A w \in 1..2 : appliers[w].pc = "done"
  /\ \A a \in 1..Len(log) : log[a].op # "error"

SequentialRun ==
  ApplyEntry(ApplyEntry(fs0, appliers[1].mf[1].k, appliers[1].mf[1].v),
             appliers[2].mf[1].k, appliers[2].mf[1].v)

Independent(p, q) ==
  /\ p # q
  /\ BackupName(p) # q /\ BackupName(q) # p
  /\ WriteTarget(p) # q /\ WriteTarget(q) # p

Parsed == pc \in {"done", "json", "check", "returned", "confirm", "cancelled", "write",
                  "applying", "complete"}

\* C26: when parse_response returns the empty mapping main returns normally
\* at the check: write_modified_files is not called, the user is not asked,
\* no source file is renamed or written and no directory is made.
C26_EmptyIsNoChange ==
  Parsed /\ modified_files = <<>> =>
    /\ pc \in {"done", "json", "check", "returned"}
    /\ appliers = <<>>
    /\ \A a \in 1..Len(log) : log[a].op # "prompt"
    /\ \A f \in SourceFiles : fs[f] = fs0[f]
    /\ dirs = {}

C26_Witness ==
  /\ pc = "returned"
  /\ modified_files = <<>>
  /\ ~args.yes
  /\ fs[PATH_SUB] = OldOf(PATH_SUB)
  /\ fs[JSON_FILE] = METADATA
  /\ fs[LOG_FILE] = response
  /\ response = join(<<HELLO, FENCE, EMPTY>>)

\* the directories file f lies in, nearest last
AncestorsOf(f) == {SubSeq(f, 1, n) : n \in 0..(Len(f) - 1)}

\* the search gets to directory d: no directory above it, nor d itself
\* unless it is the one searched, is hidden, and no directory above it has
\* a .skip-commander file
Reached(d) ==
  /\ \A n \in 1..Len(d) : ~IsHiddenName(d[n])
  /\ \A n \in 0..(Len(d) - 1) : SubSeq(d, 1, n) \notin tree.skip

InSeq(q, x) == \E n \in 1..Len(q) : q[n] = x

C28_ParsersAgree ==
  Done => /\ modified_files = parse_response1(response)
          /\ modified_files = parse_response2(response)

\* ResponseParser and ResponseParser2 alone
C28_Parser2Agrees == Done => modified_files = parse_response2(response)

\* path p has been named by a marker that opened a block
Opened(p) == \E n \in 1..Len(opened) : opened[n].path = p

\* C29: every block that is opened is eventually emitted: the path named
\* by a marker that opened a block is a key of the mapping the call returns,
\* whether the block is closed by a fence or finalized at the end of input.
C29_OpenedIsEmitted ==
  /\ [](Done => \A n \in 1..Len(opened) : opened[n].path \in Keys(modified_files))
  /\ \A p \in {PATH_A, PATH_B} : Opened(p) ~> (Done /\ p \in Keys(modified_files))

C29_Witness ==
  /\ Done
  /\ Len(opened) = 2
  /\ opened[1].path = PATH_A /\ opened[2].path = PATH_B
  /\ Keys(modified_files) = {PATH_A, PATH_B}
  /\ Len(finalized) = 2
  /\ i = Len(lines)

IsSentinelLine(l) == strip(l) = TOOL_CODE

\* C31: the preamble rule applies to line 0 only and once: the loop starts
\* at index 0 or 1, and a sentinel line met by the loop is treated like any
\* other text: discarded while scanning, appended to the content while a
\* block is open, never closing the block.
C31_SentinelOnlyAtLineZero ==
  [][/\ (pc = "loop" /\ iters = 0) =>
          i = (IF IsSentinelLine(lines[1]) THEN 1 ELSE 0)
     /\ (InLoop /\ IsSentinelLine(At(lines, i))) =>
          /\ i' = i + 1
          /\ current_file' = current_file
          /\ modified_files' = modified_files
          /\ file_content' = IF current_file = None THEN file_content
                              ELSE Append(file_content, At(lines, i))]_vars

C31_Witness ==
  /\ Done
  /\ Len(lines) = 5
  /\ IsSentinelLine(lines[1]) /\ IsSentinelLine(lines[2]) /\ IsSentinelLine(lines[5])
  /\ modified_files = <<[k |-> PATH_A, v |-> TOOL_CODE]>>
  /\ iters = 3

\* the delimiter followed by further characters
IsTaggedFence(l) == startswith(strip(l), FENCE) /\ strip(l) # FENCE

\* C32: only a line whose stripped text is exactly the delimiter can close
\* a block: while a block is open a delimiter followed by further
\* characters is appended to the content whatever the following lines are,
\* and a bare delimiter with whitespace around it is a closing candidate:
\* it closes the block when the lookahead allows and is content otherwise.
C32_OnlyBareFenceCloses ==
  [][(InLoop /\ current_file # None) =>
       /\ IsTaggedFence(At(lines, i)) =>
            /\ file_content' = Append(file_content, At(lines, i))
            /\ current_file' = current_file
            /\ modified_files' = modified_files
       /\ current_file' = None => strip(At(lines, i)) = FENCE
       /\ (strip(At(lines, i)) = FENCE /\ NextLineIsNewFileOrEof(lines, i)) =>
            /\ current_file' = None
            /\ modified_files' = DictSet(modified_files, current_file, join(file_content))]_vars

C32_Witness ==
  /\ Done
  /\ Len(lines) = 4
  /\ IsTaggedFence(lines[3])
  /\ lines[4] = PADDED_FENCE
  /\ modified_files = <<[k |-> PATH_A, v |-> lines[3]]>>
  /\ finalized = <<[path |-> PATH_A, content |-> lines[3]]>>
  /\ iters = 3

\* the stripped line without its first 3 and last 3 characters
PayloadOf(l) == [n \in 1..(Len(strip(l)) - 6) |-> strip(l)[n + 3]]

\* C33: the path of a block is the stripped marker line without its first
\* 3 and last 3 characters and nothing else is trimmed: whitespace around
\* the line is ignored, whitespace and dashes inside are kept, and the line
\* of 6 dashes gives the empty path.
C33_PathIsPayload ==
  /\ PayloadOf(PADDED_SPACED_MARKER) = <<" ">> \o PATH_A \o <<" ">>
  /\ PayloadOf(EXTRA_DASH_MARKER) = <<"-">> \o PATH_A
  /\ PayloadOf(DASH6) = <<>>
  /\ \A n \in 1..Len(opened) :
       /\ IsMarkerLine(lines[opened[n].at + 1])
       /\ opened[n].path = PayloadOf(lines[opened[n].at + 1])
  /\ (pc = "loop" /\ current_file # None) => current_file = opened[Len(opened)].path
  /\ Done => Keys(modified_files) = {opened[n].path : n \in 1..Len(opened)}

C33_Witness ==
  /\ Done
  /\ Len(lines) = 5
  /\ lines[1] = PADDED_SPACED_MARKER /\ lines[4] = DASH6
  /\ modified_files = <<[k |-> <<" ">> \o PATH_A \o <<" ">>, v |-> <<>>],
                        [k |-> <<>>, v |-> <<>>]>>

\* a block is open: more blocks have been opened than closed
BlockIsOpen == Len(opened) = Len(finalized) + 1

\* C34: at the start of every iteration the parser is scanning
\* (current_file is None) exactly when no block is open; while scanning the
\* accumulator is empty; a block is opened with an empty accumulator, and
\* the accumulator of an open block holds the lines from the first content
\* line of this block on and no line of an earlier block.
C34_LoopInvariant ==
  pc = "loop" =>
    /\ Len(opened) = Len(finalized) \/ BlockIsOpen
    /\ current_file = None <=> ~BlockIsOpen
    /\ current_file = None => file_content = <<>>
    /\ current_file # None =>
         /\ current_file = opened[Len(opened)].path
         /\ Len(file_content) = i - openAt
         /\ \A n \in 1..Len(file_content) : file_content[n] = At(lines, openAt + n - 1)

C34_Witness ==
  /\ pc = "loop"
  /\ Len(opened) = 2
  /\ finalized = <<[path |-> PATH_A, content |-> HELLO]>>
  /\ current_file = <<>>
  /\ file_content = <<>>
  /\ openAt = Len(lines)

\* the 0-based index at which the block whose content starts at index from
\* ends: the first closing fence, or the end of the input
EndOfBlock(ls, from) ==
  LET closes == {k \in from..(Len(ls) - 1) :
                   strip(At(ls, k)) = FENCE /\ NextLineIsNewFileOrEof(ls, k)} IN
  IF closes = {} THEN Len(ls)
  ELSE CHOOSE k \in closes : \A m \in closes : k <= m

\* the lines of ls at the 0-based indices from..(to - 1)
Run(ls, from, to) == [n \in 1..(to - from) |-> At(ls, from + n - 1)]

\* entry e of the result comes from the block opened by the marker at the
\* 0-based index at: its key is the payload of that line and its value the
\* join of the lines from two lines after the marker to the end of the block
ComesFrom(e, at, IsMarker(_)) ==
  /\ IsMarker(At(lines, at))
  /\ e.k = PayloadOf(At(lines, at))
  /\ LET from == IF at + 1 < Len(lines) THEN at + 2 ELSE at + 1 IN
     e.v = join(Run(lines, from, EndOfBlock(lines, from)))

\* C35: every key of the returned mapping is the payload of a Marker Line
\* that was processed while scanning, there are no more keys than such
\* lines, and every value is the join of the contiguous run of lines that
\* starts two lines after its marker and ends with its block, so that no
\* line seen while scanning is in a value.
C35_Provenance ==
  Done =>
    /\ Len(modified_files) <= Len(opened)
    /\ \A m \in 1..Len(modified_files) :
         \E n \in 1..Len(opened) : ComesFrom(modified_files[m], opened[n].at, IsMarkerLine)

\* C35 with the marker test of the code, which takes --- for a marker
C35_ProvenanceOfCode ==
  Done =>
    /\ Len(modified_files) <= Len(opened)
    /\ \A m \in 1..Len(modified_files) :
         \E n \in 1..Len(opened) : ComesFrom(modified_files[m], opened[n].at, LooksLikeMarker)

\* the previous content of path is at path or at its backup
PreviousKept(path) == fs[path] = fs0[path] \/ fs[BackupName(path)] = fs0[path]

\* C36: throughout and after one call of write_modified_files, for every
\* path of the mapping that held a file before the call, the previous
\* content of that file is at path or at path + ".backup", also when the
\* write of the entry fails and when path + ".backup" is a key as well.
C36_BackupPreserved ==
  Len(appliers) = 1 =>
    \A m \in 1..Len(appliers[1].mf) :
       fs0[appliers[1].mf[m].k] # None => PreviousKept(appliers[1].mf[m].k)

\* no key of the mapping is the backup name of another key
NoBackupKey(mf) ==
  \A a, b \in 1..Len(mf) : mf[a].k # BackupName(mf[b].k)

\* C36 for the mappings none of whose keys is the backup name of another
C36_BackupPreservedNoBackupKey ==
  (Len(appliers) = 1 /\ NoBackupKey(appliers[1].mf)) =>
    \A m \in 1..Len(appliers[1].mf) :
       fs0[appliers[1].mf[m].k] # None => PreviousKept(appliers[1].mf[m].k)

\* the path ends in .docx, whatever the case of its letters
EndsInDocx(path) == endswith(lower(path), DOCX_EXT)

\* C37: for an entry whose path ends in .docx (case-insensitive),
\* write_modified_files renames an existing file at path to
\* path + ".backup" and writes the content to path + ".txt" instead of
\* path, so after the entry is applied no file is at path itself.
C37_DocxRedirected ==
  [][\A w \in 1..Len(appliers) :
       ApplyWrite(w) /\ EndsInDocx(appliers[w].filename) =>
         LET path == appliers[w].filename
             content == appliers[w].mf[appliers[w].k].v IN
         /\ fs'[path] = None
         /\ fs'[path \o TXT_EXT] = content
         /\ appliers[w].existed => fs'[BackupName(path)] = appliers[w].prev]_vars

\* a call on an entry for R.DOCX, a file on disk before, has returned: the
\* old file is the backup, the content is in R.DOCX.txt, R.DOCX is gone
C37_Witness ==
  /\ Len(appliers) = 1 /\ appliers[1].pc = "done"
  /\ \E m \in 1..Len(appliers[1].mf) : appliers[1].mf[m].k = PATH_DOCX
  /\ fs0[PATH_DOCX] = OldOf(PATH_DOCX)
  /\ fs[PATH_DOCX] = None
  /\ fs[PATH_DOCX \o TXT_EXT] = NewOf(PATH_DOCX)
  /\ fs[BackupName(PATH_DOCX)] = OldOf(PATH_DOCX)

\* the answers the user gave to the question of line 989
Answers ==
  {log[n].answer : n \in {m \in 1..Len(log) : log[m].op = "prompt"}}

\* the user confirmed with y, or -y was given
Confirmed == args.yes \/ Answers \cap {"y", "Y"} # {}

\* the user was asked and did not confirm
Declined == Answers \ {"y", "Y"} # {}

\* C38: in main write_modified_files is called only after the user
\* confirmed with y or -y was given, and when the confirmation is declined
\* nothing on disk has changed for a parsed path: no directory is created,
\* no file renamed to a backup, no content written.
C38_ConfirmationGate ==
  /\ appliers # <<>> => Confirmed
  /\ Declined =>
       /\ appliers = <<>>
       /\ dirs = {}
       /\ \A f \in SourceFiles : fs[f] = fs0[f]

\* C38 but for the directories
C38_GateOfFiles ==
  /\ appliers # <<>> => Confirmed
  /\ Declined =>
       /\ appliers = <<>>
       /\ \A f \in SourceFiles : fs[f] = fs0[f]

====
